---- MODULE Spec2Model ----
(***************************************************************************)
(* Model of the character roster service of src/main.py: the Discord       *)
(* command handlers (create/edit/delete/show/character_list), the HTTP     *)
(* listing endpoint, the websocket fan-out of change events, the           *)
(* connection handlers and the ping sweep of the websocket server.         *)
(*                                                                         *)
(* All coroutines run on one asyncio event loop, so the code between two   *)
(* awaits is one atomic step.  The database calls are synchronous; the     *)
(* awaits are interaction.response.send_message, asyncio.gather over       *)
(* ws.send, the websocket receive loop, ws.ping and asyncio.sleep.         *)
(*                                                                         *)
(* Three specifications: Spec (the command handlers with connections that  *)
(* come and go), SpecConn (the connection handlers and the ping sweep      *)
(* beside publishing handlers) and SpecUrl (is_valid_image_url on texts).  *)
(*                                                                         *)
(* Strings whose characters matter (names, image URLs, bios) are sequences *)
(* of one-character strings.                                               *)
(***************************************************************************)
EXTENDS Integers, Sequences, FiniteSets, TLC

(* ------------------------------ bounds --------------------------------- *)

\* Number of websocket connections ever opened (numbered in order of arrival).
NumConns == 1

\* Number of send_message calls the transport may fail.
MaxReplyFaults == 1

\* Number of ws.send calls on a registered, open connection that may raise.
MaxSendFaults == 1

\* Two overlapping command / request invocations, numbered in order of arrival.
Handlers == {1, 2}

Conns == 1..NumConns

(* --------------------------- program constants ------------------------- *)

\* os.getenv("ADMIN_PASSWORD")
ADMIN_PASSWORD == <<"admin">>

\* suggestions = [c.name for c in characters][:5]
MaxSuggestions == 5

\* len(url) <= 2048
MaxUrlLen == 2048

\* None, for a value that is not text.
None == "None"

\* A text option the caller left out (None), or the empty text: both are falsy.
Absent == <<>>

(* ------------------------------ input sets ----------------------------- *)

Str_https == <<"h", "t", "t", "p", "s", ":", "/", "/">>

Str_http == <<"h", "t", "t", "p">>

ImgPng == Str_https \o <<"x", ".", "p", "n", "g">>

ImgJpg == Str_https \o <<"y", ".", "J", "P", "G">>

ImgBad == <<"h", "t", "t", "p", ":", "/", "/", "x", ".", "p", "n", "g">>

BioLink == Str_http \o <<":", "/", "/", "b">>

BioText == <<"b", "i", "o">>

F1 == <<"f", "1">>

F2 == <<"f", "2">>

F3 == <<"f", "3">>

\* Names under which characters are created, edited and deleted.
NameArgs == {<<"a">>, <<"A", "b">>}

\* Arguments of show_character: names, other prefixes, and LIKE wildcards.
ShowArgs == NameArgs \cup {<<"A">>, <<"_">>}

\* Passwords chosen by owners.
P1 == <<"p", "1">>

P2 == <<"p", "2">>

OwnerPasswords == {P1, P2}

Passwords == OwnerPasswords \cup {ADMIN_PASSWORD}

\* Arguments of create_character.
CreateArgs ==
    { [name |-> n, faceclaim |-> p[1], image |-> ImgPng, bio |-> p[2], password |-> p[3]] :
        n \in NameArgs,
        p \in {<<F1, BioText, P1>>, <<F2, BioLink, P2>>} }
    \cup { [name |-> <<"A", "b">>, faceclaim |-> F1, image |-> ImgBad,
            bio |-> BioText, password |-> P1] }

\* Arguments of edit_character; None is an option the caller left out.
EditCall(n, pw, p) ==
    [name |-> n, password |-> pw, faceclaim |-> p[1], image |-> p[2], bio |-> p[3]]

EditArgs ==
    { EditCall(<<"a">>, pw, p) :
        pw \in Passwords,
        p \in {<<F3, Absent, Absent>>, <<Absent, ImgJpg, BioLink>>} }
    \cup { EditCall(<<"A", "b">>, pw, <<F3, Absent, Absent>>) : pw \in Passwords }
    \cup { EditCall(<<"a">>, P1, <<Absent, ImgBad, Absent>>),
            EditCall(<<"a">>, ADMIN_PASSWORD, <<Absent, Absent, Absent>>) }

\* Arguments of delete_character.
DeleteArgs == { [name |-> n, password |-> pw] : n \in NameArgs, pw \in Passwords }

\* Stores the service may be started on (the database outlives the process).
RowA == [name |-> <<"a">>, faceclaim |-> F1, image |-> ImgPng, bio |-> BioText, password |-> P1]

RowAb == [name |-> <<"A", "b">>, faceclaim |-> F2, image |-> ImgPng, bio |-> BioLink, password |-> P2]

InitStores == { {RowA}, {RowA, RowAb} }

(* ------------------------------- state --------------------------------- *)

VARIABLES
    db,                     \* table "characters": the set of committed rows
    websocket_connections,  \* the global set of registered connections
    ws,                     \* per connection: state of its websocket_handler
    inbox,                  \* per connection: the messages its viewer received
    hs,                     \* per invocation: the handler coroutine's state
    faults,                 \* transport failures so far, by kind
    db0,                    \* the table when the service started
    sweep,                  \* the ping_websocket_clients task's state
    image_url               \* an image URL under validation, with its verdict

vars == <<db, websocket_connections, ws, inbox, hs, faults, db0, sweep, image_url>>

(* --------------------------- string helpers ---------------------------- *)

LF == "\n"

\* str.lower() / the case folding of re.IGNORECASE and ILIKE, on one character.
Lower(c) ==
    CASE c = "A" -> "a" [] c = "B" -> "b" [] c = "G" -> "g" [] c = "H" -> "h"
      [] c = "J" -> "j" [] c = "N" -> "n" [] c = "P" -> "p" [] c = "S" -> "s"
      [] c = "T" -> "t" [] c = "X" -> "x" [] c = "Y" -> "y" [] OTHER -> c

\* str.upper() on one character.
Upper(c) ==
    CASE c = "a" -> "A" [] c = "b" -> "B" [] OTHER -> c

LowerSeq(s) == [i \in 1..Len(s) |-> Lower(s[i])]

UpperSeq(s) == [i \in 1..Len(s) |-> Upper(s[i])]

\* str.startswith
StartsWith(s, p) == Len(s) >= Len(p) /\ SubSeq(s, 1, Len(p)) = p

\* str.endswith
EndsWith(s, p) == Len(s) >= Len(p) /\ SubSeq(s, Len(s) - Len(p) + 1, Len(s)) = p

\* The alternatives of the group (jpg|jpeg|png), each after the escaped dot.
ImageExts == { <<".", "j", "p", "g">>, <<".", "j", "p", "e", "g">>, <<".", "p", "n", "g">> }

\* re.compile(r'^https://.*\.(jpg|jpeg|png)$', re.IGNORECASE).match(url):
\* the text is matched from its start; '.' matches anything but a newline;
\* '$' matches at the end of the text or just before one trailing newline.
PatternMatch(url) ==
    LET l == LowerSeq(url)
        cores == {l} \cup (IF Len(l) > 0 /\ l[Len(l)] = LF
                           THEN {SubSeq(l, 1, Len(l) - 1)} ELSE {})
    IN  \E core \in cores, e \in ImageExts :
            /\ StartsWith(core, Str_https)
            /\ Len(core) >= Len(Str_https) + Len(e)
            /\ EndsWith(core, e)
            /\ \A i \in (Len(Str_https) + 1)..(Len(core) - Len(e)) : core[i] # LF

is_valid_image_url(url) ==
    IF url = <<>> THEN FALSE
    ELSE PatternMatch(url) /\ Len(url) <= MaxUrlLen

\* SQL LIKE on case-folded text: '%' matches any run, '_' any one character.
RECURSIVE LikeMatch(_, _)
LikeMatch(p, s) ==
    IF p = <<>> THEN s = <<>>
    ELSE IF Head(p) = "%"
         THEN LikeMatch(Tail(p), s) \/ (s # <<>> /\ LikeMatch(p, Tail(s)))
         ELSE /\ s # <<>>
              /\ (Head(p) = "_" \/ Head(p) = Head(s))
              /\ LikeMatch(Tail(p), Tail(s))

\* DBCharacter.name.ilike(f"{name}%")
ilike(column, name) == LikeMatch(LowerSeq(name \o <<"%">>), LowerSeq(column))

\* Python truthiness of a text value (None and "" are falsy).
Truthy(s) == s # Absent

(* ------------------------------ database ------------------------------- *)

\* db.query(DBCharacter).filter(DBCharacter.name == name).first(), as the
\* set of rows found (empty for None).
query_by_name(d, name) == { r \in d : r.name = name }

\* Mutant: the insert without the primary key.
add_commit_no_pk(d, row) == [integrity_error |-> FALSE, db |-> d \cup {row}]

\* Mutant: the insert replaces the row of that name.
add_commit_upsert(d, row) ==
    [integrity_error |-> FALSE, db |-> (d \ { r \in d : r.name = row.name }) \cup {row}]

\* db.add(character); db.commit() with name as primary key: the commit
\* raises IntegrityError when a row of that name exists, and inserts nothing.
add_commit(d, row) ==
    IF query_by_name(d, row.name) # {}
    THEN [integrity_error |-> TRUE, db |-> d]
    ELSE [integrity_error |-> FALSE, db |-> d \cup {row}]

\* Mutant: any password passes for an existing record.
verify_character_any_secret(d, name, password) == { r \in d : r.name = name } # {}

\* Mutant: no admin override.
verify_character_no_admin(d, name, password) ==
    \E character \in { r \in d : r.name = name } : character.password = password

\* Mutant: a missing record passes.
verify_character_missing_ok(d, name, password) ==
    \A character \in { r \in d : r.name = name } :
        character.password = password \/ password = ADMIN_PASSWORD

verify_character(d, name, password) ==
    \E character \in query_by_name(d, name) :
        character.password = password \/ password = ADMIN_PASSWORD

\* Mutant: every option is assigned, given or not.
apply_edit_overwrite(character, a) ==
    [character EXCEPT !.faceclaim = a.faceclaim, !.image = a.image, !.bio = a.bio]

\* The assignments of edit_character to the row it loaded.
apply_edit(character, a) ==
    [character EXCEPT
        !.faceclaim = IF Truthy(a.faceclaim) THEN a.faceclaim ELSE @,
        !.image = IF Truthy(a.image) THEN a.image ELSE @,
        !.bio = IF Truthy(a.bio) THEN a.bio ELSE @]

(* ------------------------------ handlers ------------------------------- *)

IdleHandler ==
    [pc |-> "idle", op |-> None, args |-> <<>>,
     outcome |-> None,      \* the result the handler decided on
     msg |-> None,          \* the reply it is about to send
     reply |-> None,        \* the reply the caller received
     errpath |-> FALSE,     \* the except Exception block was entered
     payload |-> <<>>,      \* data carried by the reply
     event |-> <<>>,        \* the message handed to broadcast_message
     owed |-> {},           \* connections registered at the commit, until broadcast_message runs
     targets |-> {},        \* connections gather() sends to
     pending |-> {},        \* sends still running
     failedTo |-> {}]       \* sends that raised

Terminal == {"done", "raised"}

\* Invocations and connections are numbered in order of arrival.
CanStart(h) == hs[h].pc = "idle" /\ \A g \in Handlers : g < h => hs[g].pc # "idle"

\* The handler reaches `await interaction.response.send_message(m)`.
Respond(rec, outcome, m) == [rec EXCEPT !.pc = "reply", !.outcome = outcome, !.msg = m]

\* An exception reaches `except Exception`: the handler sends the generic
\* error.  An interaction that was already answered rejects a second
\* send_message (InteractionResponded) before any await, and that exception
\* leaves the handler.
except_Exception(rec) ==
    IF rec.reply # None
    THEN [rec EXCEPT !.errpath = TRUE, !.pc = "raised"]
    ELSE [rec EXCEPT !.errpath = TRUE, !.pc = "reply", !.msg = "Error"]

\* db.commit() of a mutation returned: the handler replies with success.
Committed(rec, event) ==
    [Respond(rec, "Success", "Success") EXCEPT
        !.event = event, !.owed = websocket_connections]

create_event(h, a) ==
    [action |-> "create", name |-> a.name, faceclaim |-> a.faceclaim,
     image |-> a.image, bio |-> a.bio, src |-> h]

name_event(h, action, a) == [action |-> action, name |-> a.name, src |-> h]

create_character(h, a) ==
    /\ CanStart(h)
    /\ LET rec == [hs[h] EXCEPT !.op = "create", !.args = a]
           row == [name |-> a.name, faceclaim |-> a.faceclaim, image |-> a.image,
                   bio |-> a.bio, password |-> a.password]
           res == add_commit(db, row)
       IN  IF ~is_valid_image_url(a.image)
           THEN /\ hs' = [hs EXCEPT ![h] = Respond(rec, "InvalidImage", "InvalidImage")]
                /\ db' = db
           ELSE IF res.integrity_error
           THEN /\ hs' = [hs EXCEPT ![h] = Respond(rec, "DuplicateKey", "DuplicateKey")]
                /\ db' = db
           ELSE /\ hs' = [hs EXCEPT ![h] = Committed(rec, create_event(h, a))]
                /\ db' = res.db
    /\ UNCHANGED <<websocket_connections, ws, inbox, faults, db0, sweep, image_url>>

edit_character(h, a) ==
    /\ CanStart(h)
    /\ LET rec == [hs[h] EXCEPT !.op = "edit", !.args = a]
           found == query_by_name(db, a.name)
       IN  IF ~verify_character(db, a.name, a.password)
           THEN /\ hs' = [hs EXCEPT ![h] = Respond(rec, "Denied", "Denied")]
                /\ db' = db
           ELSE IF Truthy(a.image) /\ ~is_valid_image_url(a.image)
           THEN /\ hs' = [hs EXCEPT ![h] = Respond(rec, "InvalidImage", "InvalidImage")]
                /\ db' = db
           ELSE IF found = {}
           THEN /\ hs' = [hs EXCEPT ![h] = Respond(rec, "NotFound", "NotFound")]
                /\ db' = db
           ELSE /\ hs' = [hs EXCEPT ![h] = Committed(rec, name_event(h, "edit", a))]
                /\ db' = (db \ found) \cup { apply_edit(c, a) : c \in found }
    /\ UNCHANGED <<websocket_connections, ws, inbox, faults, db0, sweep, image_url>>

\* Mutant: the row is looked up before the password is verified.
delete_character_lookup_first(h, a) ==
    /\ CanStart(h)
    /\ LET rec == [hs[h] EXCEPT !.op = "delete", !.args = a]
           found == query_by_name(db, a.name)
       IN  IF found = {}
           THEN /\ hs' = [hs EXCEPT ![h] = Respond(rec, "NotFound", "NotFound")]
                /\ db' = db
           ELSE IF ~verify_character(db, a.name, a.password)
           THEN /\ hs' = [hs EXCEPT ![h] = Respond(rec, "Denied", "Denied")]
                /\ db' = db
           ELSE /\ hs' = [hs EXCEPT ![h] = Committed(rec, name_event(h, "delete", a))]
                /\ db' = db \ found
    /\ UNCHANGED <<websocket_connections, ws, inbox, faults, db0, sweep, image_url>>

\* Mutant: the password is verified against any record of the store.
delete_character_any_record(h, a) ==
    /\ CanStart(h)
    /\ LET rec == [hs[h] EXCEPT !.op = "delete", !.args = a]
           found == query_by_name(db, a.name)
       IN  IF ~(\E r \in db : verify_character(db, r.name, a.password))
           THEN /\ hs' = [hs EXCEPT ![h] = Respond(rec, "Denied", "Denied")]
                /\ db' = db
           ELSE IF found = {}
           THEN /\ hs' = [hs EXCEPT ![h] = Respond(rec, "NotFound", "NotFound")]
                /\ db' = db
           ELSE /\ hs' = [hs EXCEPT ![h] = Committed(rec, name_event(h, "delete", a))]
                /\ db' = db \ found
    /\ UNCHANGED <<websocket_connections, ws, inbox, faults, db0, sweep, image_url>>

delete_character(h, a) ==
    /\ CanStart(h)
    /\ LET rec == [hs[h] EXCEPT !.op = "delete", !.args = a]
           found == query_by_name(db, a.name)
       IN  IF ~verify_character(db, a.name, a.password)
           THEN /\ hs' = [hs EXCEPT ![h] = Respond(rec, "Denied", "Denied")]
                /\ db' = db
           ELSE IF found = {}
           THEN /\ hs' = [hs EXCEPT ![h] = Respond(rec, "NotFound", "NotFound")]
                /\ db' = db
           ELSE /\ hs' = [hs EXCEPT ![h] = Committed(rec, name_event(h, "delete", a))]
                /\ db' = db \ found
    /\ UNCHANGED <<websocket_connections, ws, inbox, faults, db0, sweep, image_url>>

\* The Embed built by show_character.
show_embed(character) ==
    [title |-> UpperSeq(character.name),
     description |-> IF StartsWith(character.bio, Str_http)
                     THEN <<"[Character Sheet](">> \o character.bio \o <<")">>
                     ELSE <<"N/A">>,
     image |-> character.image,
     footer |-> character.faceclaim]

Min(a, b) == IF a <= b THEN a ELSE b

show_character(h, name) ==
    /\ CanStart(h)
    /\ LET rec == [hs[h] EXCEPT !.op = "show", !.args = [name |-> name]]
           characters == { r \in db : ilike(r.name, name) }
       IN  IF characters = {}
           THEN hs' = [hs EXCEPT ![h] = Respond(rec, "NotFound", "NotFound")]
           ELSE \* the first five rows, in the order the database returned them
                \E first \in SUBSET characters :
                    /\ Cardinality(first) = Min(MaxSuggestions, Cardinality(characters))
                    /\ LET suggestions == { c.name : c \in first }
                       IN  IF Cardinality(suggestions) > 1
                           THEN hs' = [hs EXCEPT ![h] =
                                    [Respond(rec, "Ambiguous", "Ambiguous") EXCEPT
                                        !.payload = suggestions]]
                           ELSE hs' = [hs EXCEPT ![h] =
                                    [Respond(rec, "Shown", "Shown") EXCEPT
                                        !.payload = show_embed(CHOOSE c \in first : TRUE)]]
    /\ UNCHANGED <<db, websocket_connections, ws, inbox, faults, db0, sweep, image_url>>

list_all_characters(h) ==
    /\ CanStart(h)
    /\ hs' = [hs EXCEPT ![h] =
                Respond([hs[h] EXCEPT !.op = "character_list"], "ListLink", "ListLink")]
    /\ UNCHANGED <<db, websocket_connections, ws, inbox, faults, db0, sweep, image_url>>

\* Mutant: the listing serialises the whole row.
get_characters_whole_row(h) ==
    /\ CanStart(h)
    /\ hs' = [hs EXCEPT ![h] =
                [hs[h] EXCEPT !.op = "get_characters", !.pc = "done",
                    !.outcome = "Listing", !.reply = "Listing",
                    !.payload = db]]
    /\ UNCHANGED <<db, websocket_connections, ws, inbox, faults, db0, sweep, image_url>>

\* GET /api/characters: no await, the response is the return value.
get_characters(h) ==
    /\ CanStart(h)
    /\ hs' = [hs EXCEPT ![h] =
                [hs[h] EXCEPT !.op = "get_characters", !.pc = "done",
                    !.outcome = "Listing", !.reply = "Listing",
                    !.payload = { [name |-> c.name, faceclaim |-> c.faceclaim,
                                   image |-> c.image, bio |-> c.bio] : c \in db }]]
    /\ UNCHANGED <<db, websocket_connections, ws, inbox, faults, db0, sweep, image_url>>

\* Mutant: the sends go to every connection there will ever be.
broadcast_message_all_conns(rec) ==
    [rec EXCEPT !.pc = "gather", !.owed = {}, !.targets = Conns, !.pending = Conns]

\* interaction.response.send_message returns: the caller has the reply.  After
\* the success reply of a mutation the handler runs on into broadcast_message,
\* up to its await: that returns at once without connections, else creates
\* one ws.send per registered connection and awaits gather().  After any
\* other reply the handler leaves (finally: db.close()).
broadcast_message(rec) ==
    IF websocket_connections = {}
    THEN [rec EXCEPT !.pc = "done", !.owed = {}]
    ELSE [rec EXCEPT !.pc = "gather", !.owed = {},
                     !.targets = websocket_connections,
                     !.pending = websocket_connections]

send_message_ok(h) ==
    /\ hs[h].pc = "reply"
    /\ hs' = [hs EXCEPT ![h] =
                IF hs[h].msg = "Success"
                THEN broadcast_message([hs[h] EXCEPT !.reply = hs[h].msg])
                ELSE [hs[h] EXCEPT !.reply = hs[h].msg, !.pc = "done"]]
    /\ UNCHANGED <<db, websocket_connections, ws, inbox, faults, db0, sweep, image_url>>

\* Mutant: a failed success reply rolls the handler's insert back.
send_message_raise_rollback(h) ==
    /\ hs[h].pc = "reply"
    /\ faults.reply < MaxReplyFaults
    /\ faults' = [faults EXCEPT !.reply = @ + 1]
    /\ hs' = [hs EXCEPT ![h] =
                IF hs[h].msg = "Error" THEN [hs[h] EXCEPT !.pc = "raised"]
                ELSE except_Exception(hs[h])]
    /\ db' = { r \in db : hs[h].outcome = "Success" => r.name # hs[h].args.name }
    /\ UNCHANGED <<websocket_connections, ws, inbox, db0, sweep, image_url>>

\* interaction.response.send_message raises (the transport failed).  Raised by
\* the generic error reply itself, the exception leaves the handler.
send_message_raise(h) ==
    /\ hs[h].pc = "reply"
    /\ faults.reply < MaxReplyFaults
    /\ faults' = [faults EXCEPT !.reply = @ + 1]
    /\ hs' = [hs EXCEPT ![h] =
                IF hs[h].msg = "Error" THEN [hs[h] EXCEPT !.pc = "raised"]
                ELSE except_Exception(hs[h])]
    /\ UNCHANGED <<db, websocket_connections, ws, inbox, db0, sweep, image_url>>

\* One ws.send completes: the viewer has the message.
ws_send_ok(h, c) ==
    /\ c \in hs[h].pending
    /\ ws[c] = "open"
    /\ inbox' = [inbox EXCEPT ![c] = Append(@, hs[h].event)]
    /\ hs' = [hs EXCEPT ![h] = [hs[h] EXCEPT !.pending = @ \ {c}]]
    /\ UNCHANGED <<db, websocket_connections, ws, faults, db0, sweep, image_url>>

\* One ws.send raises: ConnectionClosed on a closed connection, or the
\* transport broke under an open one.  gather() leaves the other sends running.
ws_send_raise(h, c) ==
    /\ c \in hs[h].pending
    /\ IF ws[c] = "open"
       THEN /\ faults.send < MaxSendFaults
            /\ faults' = [faults EXCEPT !.send = @ + 1]
       ELSE faults' = faults
    /\ hs' = [hs EXCEPT ![h] = [hs[h] EXCEPT !.pending = @ \ {c}, !.failedTo = @ \cup {c}]]
    /\ UNCHANGED <<db, websocket_connections, ws, inbox, db0, sweep, image_url>>

\* gather() returns once every send has completed.
gather_return(h) ==
    /\ hs[h].pc = "gather"
    /\ hs[h].pending = {}
    /\ hs[h].failedTo = {}
    /\ hs' = [hs EXCEPT ![h] = [hs[h] EXCEPT !.pc = "done"]]
    /\ UNCHANGED <<db, websocket_connections, ws, inbox, faults, db0, sweep, image_url>>

\* gather() (without return_exceptions) raises the first exception of a send
\* into the handler.
gather_raise(h) ==
    /\ hs[h].pc = "gather"
    /\ hs[h].failedTo # {}
    /\ hs' = [hs EXCEPT ![h] = except_Exception(hs[h])]
    /\ UNCHANGED <<db, websocket_connections, ws, inbox, faults, db0, sweep, image_url>>

(* ------------------------- websocket connections ----------------------- *)

\* ping_websocket_clients between two rounds (asyncio.sleep(30)).
SweepIdle == [pc |-> "sleep", cur |-> 0, todo |-> {}]

\* No image URL is under validation.
NoUrl == [text |-> <<>>, verdict |-> "unchecked"]

\* websocket_handler up to its first await: registers the connection.
websocket_handler_start(c) ==
    /\ ws[c] = "new"
    /\ \A b \in Conns : b < c => ws[b] # "new"
    /\ ws' = [ws EXCEPT ![c] = "open"]
    /\ websocket_connections' = websocket_connections \cup {c}
    /\ UNCHANGED <<db, inbox, hs, faults, db0, sweep, image_url>>

\* The connection goes down (the peer closed it or the transport broke); its
\* websocket_handler has not been resumed yet.
connection_lost(c) ==
    /\ ws[c] = "open"
    /\ ws' = [ws EXCEPT ![c] = "lost"]
    /\ UNCHANGED <<db, websocket_connections, inbox, hs, faults, db0, sweep, image_url>>

\* The websocket_handler of c is between its first await and its exit.
Running(c) == ws[c] \in {"open", "lost"}

\* Mutant: the removal is forgotten.
set_remove_nothing(S, c) == [key_error |-> FALSE, set |-> S]

\* set.remove(c): the set without c, or KeyError when c is not in it.
set_remove(S, c) ==
    IF c \in S THEN [key_error |-> FALSE, set |-> S \ {c}]
    ELSE [key_error |-> TRUE, set |-> S]

\* The receive loop ends (normally or with ConnectionClosed); finally removes
\* the connection, and a KeyError of that removal leaves the handler.
websocket_handler_exit(c) ==
    /\ Running(c)
    /\ LET res == set_remove(websocket_connections, c)
       IN  /\ ws' = [ws EXCEPT ![c] = IF res.key_error THEN "key_error" ELSE "closed"]
           /\ websocket_connections' = res.set
    /\ UNCHANGED <<db, inbox, hs, faults, db0, sweep, image_url>>

(* ---------------------------- liveness sweep --------------------------- *)

\* The for loop of ping_websocket_clients moves on: it calls ping() on an
\* arbitrary connection left in its copy of the set, or, the copy exhausted,
\* goes to asyncio.sleep(30).
sweep_continue(todo) ==
    IF todo = {} THEN {SweepIdle}
    ELSE { [pc |-> "ping", cur |-> c, todo |-> todo \ {c}] : c \in todo }

\* asyncio.sleep(30) returns with connections registered: the loop copies the
\* set, list(websocket_connections), and awaits the first ping.  (With no
\* connection registered it goes back to sleep at once.)
ping_websocket_clients ==
    /\ sweep.pc = "sleep"
    /\ websocket_connections # {}
    /\ sweep' \in sweep_continue(websocket_connections)
    /\ UNCHANGED <<db, websocket_connections, ws, inbox, hs, faults, db0, image_url>>

\* await ws.ping() returns: the ping frame went out on an open connection.
ping_return ==
    /\ sweep.pc = "ping"
    /\ ws[sweep.cur] = "open"
    /\ sweep' \in sweep_continue(sweep.todo)
    /\ UNCHANGED <<db, websocket_connections, ws, inbox, hs, faults, db0, image_url>>

\* await ws.ping() raises on a connection that is down; except Exception
\* removes it from the set.  A KeyError of that removal leaves the while loop
\* and ends the task.
ping_raise ==
    /\ sweep.pc = "ping"
    /\ ws[sweep.cur] # "open"
    /\ LET res == set_remove(websocket_connections, sweep.cur)
       IN  /\ websocket_connections' = res.set
           /\ IF res.key_error
              THEN sweep' = [pc |-> "crashed", cur |-> sweep.cur, todo |-> {}]
              ELSE sweep' \in sweep_continue(sweep.todo)
    /\ UNCHANGED <<db, ws, inbox, hs, faults, db0, image_url>>

(* ---------------------------- specification ---------------------------- *)

Init ==
    /\ db \in InitStores
    /\ websocket_connections = {}
    /\ ws = [c \in Conns |-> "new"]
    /\ inbox = [c \in Conns |-> <<>>]
    /\ hs = [h \in Handlers |-> IdleHandler]
    /\ faults = [reply |-> 0, send |-> 0]
    /\ db0 = db
    /\ sweep = SweepIdle
    /\ image_url = NoUrl

Next ==
    \/ \E h \in Handlers, a \in CreateArgs : create_character(h, a)
    \/ \E h \in Handlers, a \in EditArgs : edit_character(h, a)
    \/ \E h \in Handlers, a \in DeleteArgs : delete_character(h, a)
    \/ \E h \in Handlers, n \in ShowArgs : show_character(h, n)
    \/ \E h \in Handlers : list_all_characters(h)
    \/ \E h \in Handlers : get_characters(h)
    \/ \E h \in Handlers : send_message_ok(h)
    \/ \E h \in Handlers : send_message_raise(h)
    \/ \E h \in Handlers, c \in Conns : ws_send_ok(h, c)
    \/ \E h \in Handlers, c \in Conns : ws_send_raise(h, c)
    \/ \E h \in Handlers : gather_return(h)
    \/ \E h \in Handlers : gather_raise(h)
    \/ \E c \in Conns : websocket_handler_start(c)
    \/ \E c \in Conns : websocket_handler_exit(c)

Spec == Init /\ [][Next]_vars

(* ------------------- connections under the sweep ----------------------- *)

\* The mutations whose change events are published while connections come
\* and go: one create and one delete.
PublishCreateArgs == { a \in CreateArgs : a.name = <<"A", "b">> /\ a.password = P1 /\ a.image = ImgPng }

PublishDeleteArgs == { a \in DeleteArgs : a.name = <<"a">> /\ a.password = ADMIN_PASSWORD }

\* websocket_server: the connection handlers and ping_websocket_clients,
\* beside command handlers that publish.
NextConn ==
    \/ \E h \in Handlers, a \in PublishCreateArgs : create_character(h, a)
    \/ \E h \in Handlers, a \in PublishDeleteArgs : delete_character(h, a)
    \/ \E h \in Handlers : send_message_ok(h)
    \/ \E h \in Handlers : send_message_raise(h)
    \/ \E h \in Handlers, c \in Conns : ws_send_ok(h, c)
    \/ \E h \in Handlers, c \in Conns : ws_send_raise(h, c)
    \/ \E h \in Handlers : gather_return(h)
    \/ \E h \in Handlers : gather_raise(h)
    \/ \E c \in Conns : websocket_handler_start(c)
    \/ \E c \in Conns : connection_lost(c)
    \/ \E c \in Conns : websocket_handler_exit(c)
    \/ ping_websocket_clients
    \/ ping_return
    \/ ping_raise

SpecConn == Init /\ [][NextConn]_vars

(* ------------------------- image URL validation ------------------------ *)

\* A run of n filler characters.
Pad(n) == [i \in 1..n |-> "x"]

Str_HTTPS == <<"H", "T", "T", "P", "S", ":", "/", "/">>

UrlSchemes ==
    { Str_https, Str_HTTPS, Str_http \o <<":", "/", "/">>,
      <<"f", "t", "p", ":", "/", "/">>, <<>> }

UrlMiddles == { <<>>, <<"x">>, <<"x", LF, "y">> }

UrlEndings ==
    ImageExts \cup { <<".", "P", "N", "G">>, <<".", "g", "i", "f">>,
                     <<"p", "n", "g">>, <<>> }

UrlTails == { <<>>, <<LF>>, <<LF, LF>>, <<"/">> }

\* An https .png URL of exactly n characters.
UrlOfLen(n) == Str_https \o Pad(n - 12) \o <<".", "p", "n", "g">>

\* The texts is_valid_image_url is applied to: every combination of scheme,
\* middle, ending and tail, and URLs around the length limit.
UrlInputs ==
    { s \o m \o e \o t : s \in UrlSchemes, m \in UrlMiddles,
                         e \in UrlEndings, t \in UrlTails }
    \cup { UrlOfLen(n) : n \in {MaxUrlLen - 1, MaxUrlLen, MaxUrlLen + 1} }
    \cup { UrlOfLen(MaxUrlLen - 1) \o <<LF>>, UrlOfLen(MaxUrlLen) \o <<LF>> }

\* One call of is_valid_image_url on the text under validation.
validate_image_url ==
    /\ image_url.verdict = "unchecked"
    /\ image_url' = [image_url EXCEPT !.verdict =
                 IF is_valid_image_url(image_url.text) THEN "valid" ELSE "invalid"]
    /\ UNCHANGED <<db, websocket_connections, ws, inbox, hs, faults, db0, sweep>>

InitUrl ==
    /\ db = {}
    /\ websocket_connections = {}
    /\ ws = [c \in Conns |-> "new"]
    /\ inbox = [c \in Conns |-> <<>>]
    /\ hs = [h \in Handlers |-> IdleHandler]
    /\ faults = [reply |-> 0, send |-> 0]
    /\ db0 = db
    /\ sweep = SweepIdle
    /\ image_url \in { [text |-> u, verdict |-> "unchecked"] : u \in UrlInputs }

NextUrl == validate_image_url

SpecUrl == InitUrl /\ [][NextUrl]_vars

(* ============================== properties ============================= *)

\* Number of messages of invocation h that the viewer of c received.
Received(c, h) == Cardinality({ i \in 1..Len(inbox[c]) : inbox[c][i].src = h })

\* Every send of h was resolved and its handler has left.
Settled(h) == hs[h].pc \in Terminal /\ hs[h].pending = {}

\* C1 (as claimed): once a handler has finished and its sends are resolved, a
\* successful create/edit/delete has reached every viewer that was registered
\* at the commit (and is still connected, its send not having failed) exactly
\* once, with the operation's action and name; any other operation has
\* reached no viewer.
C1_SuccessPublishedOnce ==
    \A h \in Handlers :
        Settled(h) =>
            IF hs[h].outcome = "Success"
            THEN \A c \in hs[h].owed \cup hs[h].targets :
                    (ws[c] = "open" /\ c \notin hs[h].failedTo) =>
                        /\ Received(c, h) = 1
                        /\ \A i \in 1..Len(inbox[c]) :
                              inbox[c][i].src = h =>
                                  /\ inbox[c][i].action = hs[h].op
                                  /\ inbox[c][i].name = hs[h].args.name
            ELSE \A c \in Conns : Received(c, h) = 0

\* C2 (as claimed): when a send of a handler's event has failed, the other
\* viewers still got the event and the handler ended as a success: the caller
\* has the success reply and the generic error path was not taken.
C2_SendFailureSwallowed ==
    \A h \in Handlers :
        (Settled(h) /\ hs[h].failedTo # {}) =>
            /\ \A c \in hs[h].targets \ hs[h].failedTo : Received(c, h) = 1
            /\ hs[h].reply = "Success"
            /\ hs[h].pc = "done"
            /\ ~hs[h].errpath

Names(d) == { r.name : r \in d }

RowOf(a) ==
    [name |-> a.name, faceclaim |-> a.faceclaim, image |-> a.image,
     bio |-> a.bio, password |-> a.password]

\* The invocations that are creates of name n with an image that passes.
CreatesOf(n) ==
    { h \in Handlers : /\ hs[h].op = "create"
                       /\ hs[h].args.name = n
                       /\ is_valid_image_url(hs[h].args.image) }

\* Some invocation other than those in cs edits or deletes name n.
OthersTouch(n, cs) ==
    \E h \in Handlers \ cs : hs[h].op \in {"edit", "delete"} /\ hs[h].args.name = n

\* C3: no two rows ever share a name; and of overlapping creates of one name
\* that was free when the service started (nothing else editing or deleting
\* it), exactly one is a success and every other one a DuplicateKey, the one
\* row of that name holds the winner's fields, and no caller is told anything
\* but its own result or the generic error.
C3_OneCreateWins ==
    /\ \A r1, r2 \in db : r1.name = r2.name => r1 = r2
    /\ \A n \in NameArgs :
        LET cs == CreatesOf(n)
        IN  (Cardinality(cs) >= 2 /\ n \notin Names(db0) /\ ~OthersTouch(n, cs)) =>
                /\ \E w \in cs :
                      /\ hs[w].outcome = "Success"
                      /\ \A l \in cs \ {w} : hs[l].outcome = "DuplicateKey"
                      /\ { r \in db : r.name = n } = {RowOf(hs[w].args)}
                /\ \A h \in cs : hs[h].reply \in {None, "Error", hs[h].outcome}

\* C3 witness: two creates of one free name with different fields have both
\* finished and both callers have their result.
C3_Witness ==
    \E n \in NameArgs :
        /\ CreatesOf(n) = Handlers
        /\ n \notin Names(db0)
        /\ hs[1].args # hs[2].args
        /\ \A h \in Handlers : hs[h].pc \in Terminal /\ hs[h].reply = hs[h].outcome
        /\ hs[2].outcome = "DuplicateKey"

\* The step in which invocation h starts and runs up to its first await.
Starts(h) == hs[h].pc = "idle" /\ hs'[h].pc # "idle"

\* C4: an edit whose password is neither the stored one of the named record
\* nor the admin password decides Denied and leaves the whole store as it was.
C4_WrongSecretEditDenied ==
    [][\A h \in Handlers :
          (Starts(h) /\ hs'[h].op = "edit") =>
              LET a == hs'[h].args
              IN  (/\ a.password # ADMIN_PASSWORD
                   /\ \E r \in db : r.name = a.name /\ r.password # a.password) =>
                      /\ hs'[h].outcome = "Denied"
                      /\ hs'[h].msg = "Denied"
                      /\ db' = db]_vars

\* C4 witness: the caller of such an edit has the Denied reply while a second
\* record exists and the store is the one the service started on.
C4_Witness ==
    \E h \in Handlers :
        /\ hs[h].op = "edit" /\ hs[h].reply = "Denied"
        /\ hs[h].args.password # ADMIN_PASSWORD
        /\ \E r \in db : r.name = hs[h].args.name /\ r.password # hs[h].args.password
        /\ Cardinality(db) >= 2 /\ db = db0
        /\ \A g \in Handlers \ {h} : hs[g].pc = "idle"

\* C5 (as claimed): a delete of a name without a record decides NotFound and
\* leaves the store unchanged.
C5_DeleteMissingNotFound ==
    [][\A h \in Handlers :
          (Starts(h) /\ hs'[h].op = "delete" /\ hs'[h].args.name \notin Names(db)) =>
              /\ hs'[h].outcome = "NotFound"
              /\ db' = db]_vars

\* C5 (amended): a delete of a name without a record decides Denied, whatever
\* the password (the admin password included), and leaves the store unchanged.
C5_DeleteMissingDenied ==
    [][\A h \in Handlers :
          (Starts(h) /\ hs'[h].op = "delete" /\ hs'[h].args.name \notin Names(db)) =>
              /\ hs'[h].outcome = "Denied"
              /\ hs'[h].msg = "Denied"
              /\ db' = db]_vars

\* C5 witness: the caller of a delete with the admin password of a name that
\* never had a record has the Denied reply.
C5_Witness ==
    \E h \in Handlers :
        /\ hs[h].op = "delete" /\ hs[h].reply = "Denied"
        /\ hs[h].args.password = ADMIN_PASSWORD
        /\ hs[h].args.name \notin Names(db) \cup Names(db0)
        /\ \A g \in Handlers \ {h} : hs[g].pc = "idle"

\* C6: an edit or delete is let through (decides anything but Denied) exactly
\* when a record of that name exists and the password is that record's or the
\* admin password; and an edit with the admin password of an existing record,
\* its image left out or passing, is a success.
C6_AllowedIffOwnerOrAdmin ==
    [][\A h \in Handlers :
          (Starts(h) /\ hs'[h].op \in {"edit", "delete"}) =>
              LET a == hs'[h].args
                  allowed == \E r \in db :
                                /\ r.name = a.name
                                /\ (r.password = a.password \/ a.password = ADMIN_PASSWORD)
              IN  /\ (hs'[h].outcome # "Denied") <=> allowed
                  /\ (/\ hs'[h].op = "edit"
                      /\ a.password = ADMIN_PASSWORD
                      /\ a.name \in Names(db)
                      /\ (a.image = Absent \/ is_valid_image_url(a.image))) =>
                          hs'[h].outcome = "Success"]_vars

\* C6 witness: the caller of an edit with the admin password has the success
\* reply, and the record's own password is another one.
C6_Witness ==
    \E h \in Handlers :
        /\ hs[h].op = "edit" /\ hs[h].reply = "Success"
        /\ hs[h].args.password = ADMIN_PASSWORD
        /\ \E r \in db : r.name = hs[h].args.name /\ r.password # ADMIN_PASSWORD

\* C7: for an edit or delete whose password is not the admin password and not
\* the password of a record of that name, the whole state of the handler after
\* its decision (so everything the caller can observe) is the same Denied
\* whether or not a record of that name exists, and the store is unchanged.
C7_DenialHidesExistence ==
    [][\A h \in Handlers :
          (Starts(h) /\ hs'[h].op \in {"edit", "delete"}) =>
              LET a == hs'[h].args
              IN  (/\ a.password # ADMIN_PASSWORD
                   /\ \A r \in db : r.name = a.name => r.password # a.password) =>
                      /\ hs'[h] = Respond([IdleHandler EXCEPT !.op = hs'[h].op, !.args = a],
                                          "Denied", "Denied")
                      /\ db' = db]_vars

\* C7 witness: two deletes with the same password, one of a name that never
\* had a record and one of a record with another password, and both callers
\* have the same reply.
C7_Witness ==
    \E h, g \in Handlers :
        /\ hs[h].op = "delete" /\ hs[g].op = "delete"
        /\ hs[h].args.password = hs[g].args.password
        /\ hs[h].args.password # ADMIN_PASSWORD
        /\ hs[h].args.name \notin Names(db) \cup Names(db0)
        /\ \E r \in db : r.name = hs[g].args.name /\ r.password # hs[g].args.password
        /\ hs[h].reply = "Denied" /\ hs[g].reply = "Denied"
        /\ db = db0

TextFields == {"name", "faceclaim", "image", "bio", "title", "description", "footer"}

\* An output record has no password field and no text of it is a password.
NoSecret(rec) ==
    /\ "password" \notin DOMAIN rec
    /\ \A f \in DOMAIN rec \cap TextFields : rec[f] \notin Passwords

\* C8: the listing, the result of show (the embed, or the candidate names) and
\* every change event, sent or about to be sent, carry no password.
C8_NoPasswordInOutputs ==
    /\ \A h \in Handlers :
        /\ hs[h].op = "get_characters" => \A d \in hs[h].payload : NoSecret(d)
        /\ hs[h].outcome = "Shown" => NoSecret(hs[h].payload)
        /\ hs[h].outcome = "Ambiguous" => \A n \in hs[h].payload : n \notin Passwords
        /\ hs[h].outcome = "Success" => NoSecret(hs[h].event)
    /\ \A c \in Conns : \A i \in 1..Len(inbox[c]) : NoSecret(inbox[c][i])

\* C8 witness: a viewer has received the event of a create, and a listing
\* taken afterwards contains the created record.
C8_Witness ==
    \E h, g \in Handlers, c \in Conns :
        /\ hs[h].op = "create" /\ Received(c, h) = 1
        /\ hs[g].op = "get_characters"
        /\ \E d \in hs[g].payload : d.name = hs[h].args.name

\* The text holds a character that LIKE reads as a wildcard.
HasWildcard(n) == \E i \in 1..Len(n) : n[i] \in {"%", "_"}

\* C9 (as claimed, for names without LIKE wildcards): show returns the record
\* of exactly that name if there is one, else the single record whose name
\* starts with it (case-insensitively); it is Ambiguous, with the candidates'
\* names, only with several such records and no exact one, and NotFound when
\* no name starts with it.
C9_ShowExactOrUniquePrefix ==
    [][\A h \in Handlers :
          (Starts(h) /\ hs'[h].op = "show" /\ ~HasWildcard(hs'[h].args.name)) =>
              LET n == hs'[h].args.name
                  exact == { r \in db : r.name = n }
                  pref == { r \in db : StartsWith(LowerSeq(r.name), LowerSeq(n)) }
              IN  /\ exact # {} =>
                        /\ hs'[h].outcome = "Shown"
                        /\ hs'[h].payload \in { show_embed(r) : r \in exact }
                  /\ (exact = {} /\ Cardinality(pref) = 1) =>
                        /\ hs'[h].outcome = "Shown"
                        /\ hs'[h].payload \in { show_embed(r) : r \in pref }
                  /\ (exact = {} /\ Cardinality(pref) > 1) =>
                        /\ hs'[h].outcome = "Ambiguous"
                        /\ hs'[h].payload = Names(pref)
                  /\ pref = {} => hs'[h].outcome = "NotFound"]_vars

\* C10: a create with a passing image and a taken name decides DuplicateKey,
\* a create with a failing image decides InvalidImage, and either leaves the
\* store (so the existing record and its password) as it was.
C10_FailedCreateLeavesStore ==
    [][\A h \in Handlers :
          (Starts(h) /\ hs'[h].op = "create") =>
              LET a == hs'[h].args
              IN  /\ ~is_valid_image_url(a.image) =>
                        /\ hs'[h].outcome = "InvalidImage"
                        /\ db' = db
                  /\ (is_valid_image_url(a.image) /\ a.name \in Names(db)) =>
                        /\ hs'[h].outcome = "DuplicateKey"
                        /\ db' = db]_vars

\* C10 witness: one caller has the DuplicateKey reply for a name whose record
\* has another password, another has the InvalidImage reply, and the store is
\* the one the service started on.
C10_Witness ==
    \E h, g \in Handlers :
        /\ hs[h].op = "create" /\ hs[h].reply = "DuplicateKey"
        /\ \E r \in db : r.name = hs[h].args.name /\ r.password # hs[h].args.password
        /\ hs[g].op = "create" /\ hs[g].reply = "InvalidImage"
        /\ db = db0

\* C11 (as claimed): is_valid_image_url(url) is true exactly when url is
\* non-empty, begins with https:// (read leniently: in any letter case), ends
\* with .jpg, .jpeg or .png in any letter case, and has at most 2048
\* characters.
ClaimedValid(u) ==
    /\ u # <<>>
    /\ StartsWith(LowerSeq(u), Str_https)
    /\ \E e \in ImageExts : EndsWith(LowerSeq(u), e)
    /\ Len(u) <= MaxUrlLen

C11_ValidIffClaimed ==
    image_url.verdict # "unchecked" => (image_url.verdict = "valid" <=> ClaimedValid(image_url.text))

\* C13 (as claimed): under every interleaving of subscribe, handler exit,
\* publish and the sweep, neither websocket_handler nor
\* ping_websocket_clients removes a connection that is not in the set (no
\* KeyError ends a handler or the sweep loop).  (broadcast_message builds its
\* sends from the set without an await, so nothing mutates the set meanwhile.)
C13_NoRemovalOfAbsent ==
    /\ sweep.pc # "crashed"
    /\ \A c \in Conns : ws[c] # "key_error"

\* C12 (as claimed): whenever a probe of the sweep fails (ping raises for a
\* connection that is down), that connection is out of the connection set
\* afterwards and the sweep keeps running for the remaining connections.
C12_FailedProbeDroppedSweepRuns ==
    [][ (sweep.pc = "ping" /\ ws[sweep.cur] # "open" /\ sweep' # sweep) =>
            /\ sweep.cur \notin websocket_connections'
            /\ sweep'.pc \in {"ping", "sleep"} ]_vars

\* C14: a change event is handed to the viewers only by a handler whose
\* mutation was committed in an earlier step (the snapshot for gather() is
\* taken and every message is delivered after the commit), and the store
\* changes only in the step in which a create, edit or delete commits: no
\* reply, send or exception step of any handler changes it, so a committed
\* mutation is never undone by what follows it.
C14_PublishAfterCommitNeverUndone ==
    [][ /\ \A h \in Handlers :
              (hs'[h].pc = "gather" /\ hs[h].pc # "gather") =>
                  /\ hs[h].outcome = "Success"
                  /\ hs[h].op \in {"create", "edit", "delete"}
                  /\ db' = db
        /\ \A c \in Conns :
              inbox'[c] # inbox[c] =>
                  \E h \in Handlers :
                      /\ hs[h].outcome = "Success" /\ c \in hs[h].pending
                      /\ inbox'[c] = Append(inbox[c], hs[h].event)
                      /\ db' = db
        /\ db' # db =>
              \E h \in Handlers :
                  /\ Starts(h)
                  /\ hs'[h].outcome = "Success"
                  /\ hs'[h].op \in {"create", "edit", "delete"} ]_vars

\* C14 witness: a create was committed, its one send failed and the exception
\* left the handler; the created row is in the store.
C14_Witness ==
    \E h \in Handlers :
        /\ hs[h].op = "create" /\ hs[h].outcome = "Success"
        /\ hs[h].failedTo # {} /\ hs[h].errpath /\ hs[h].pc \in Terminal
        /\ RowOf(hs[h].args) \in db

\* C15: a successful edit gives each of faceclaim, image and bio that the
\* caller provided (a non-empty text) the provided value and leaves each one
\* not provided as it was; the record keeps its name and password, and every
\* other record of the store is untouched.
C15_EditChangesProvidedOnly ==
    [][\A h \in Handlers :
          (Starts(h) /\ hs'[h].op = "edit" /\ hs'[h].outcome = "Success") =>
              LET a == hs'[h].args
              IN  \E old \in db, new \in db' :
                      /\ old.name = a.name /\ new.name = a.name
                      /\ new.password = old.password
                      /\ new.faceclaim = (IF a.faceclaim # Absent THEN a.faceclaim ELSE old.faceclaim)
                      /\ new.image = (IF a.image # Absent THEN a.image ELSE old.image)
                      /\ new.bio = (IF a.bio # Absent THEN a.bio ELSE old.bio)
                      /\ db' \ {new} = db \ {old}]_vars

\* C15 witness: an edit that provided only the faceclaim has succeeded on a
\* store of two records; the record has the new faceclaim and still its image
\* and bio.
C15_Witness ==
    \E h \in Handlers :
        /\ hs[h].op = "edit" /\ hs[h].reply = "Success"
        /\ hs[h].args.faceclaim # Absent
        /\ hs[h].args.image = Absent /\ hs[h].args.bio = Absent
        /\ Cardinality(db) >= 2
        /\ \E r \in db : /\ r.name = hs[h].args.name
                         /\ r.faceclaim = hs[h].args.faceclaim
                         /\ r.image # Absent /\ r.bio # Absent

\* C16: whenever the record of a name is changed or removed, the step that
\* commits it is the first step of an edit or delete of that name, and the
\* password of that call is, in the store as it is at that very step, the
\* password of the one record of that name, or the admin password: the check
\* and the commit are one step, whatever other handlers are in flight.
C16_MutationAuthorizedAtCommit ==
    [][\A n \in NameArgs :
          (query_by_name(db, n) # {} /\ query_by_name(db', n) # query_by_name(db, n)) =>
              \E h \in Handlers, r \in db :
                  /\ Starts(h)
                  /\ hs'[h].op \in {"edit", "delete"}
                  /\ hs'[h].args.name = n
                  /\ query_by_name(db, n) = {r}
                  /\ (r.password = hs'[h].args.password
                        \/ hs'[h].args.password = ADMIN_PASSWORD)]_vars

\* C16 witness: while an edit of a name that changed the record is still in
\* flight (its reply not sent), a delete of the same name with the owner's
\* password has removed the record.
C16_Witness ==
    \E h, g \in Handlers :
        /\ h # g
        /\ hs[g].op = "edit" /\ hs[g].outcome = "Success" /\ hs[g].pc = "reply"
        /\ hs[g].args.faceclaim # Absent
        /\ hs[h].op = "delete" /\ hs[h].outcome = "Success"
        /\ hs[h].args.name = hs[g].args.name
        /\ hs[h].args.password \in OwnerPasswords
        /\ hs[h].args.name \notin Names(db)

\* C17: the connections an event is sent to are fixed, once, as the
\* connection set at the moment it is published; a viewer receives a message
\* only as one send of a publish that has it among those connections; and a
\* connection that has not subscribed yet has received nothing and is among
\* the connections of no publish.  So an event published before a viewer
\* subscribed never reaches it, at its subscription or later.
C17_OnlySubscribedAtPublish ==
    [][ /\ \A h \in Handlers :
              hs'[h].targets # hs[h].targets =>
                  /\ hs[h].targets = {}
                  /\ hs'[h].targets = websocket_connections
                  /\ websocket_connections' = websocket_connections
        /\ \A c \in Conns :
              /\ inbox'[c] # inbox[c] =>
                    \E h \in Handlers :
                        /\ c \in hs[h].targets
                        /\ hs'[h].targets = hs[h].targets
                        /\ inbox'[c] = Append(inbox[c], hs[h].event)
              /\ ws[c] = "new" =>
                    /\ inbox[c] = <<>> /\ inbox'[c] = <<>>
                    /\ \A h \in Handlers : c \notin hs[h].targets ]_vars

\* C17 witness: a success was published while no viewer was subscribed (its
\* handler has left); a viewer that subscribed afterwards has received the
\* event of the other invocation and not that one.
C17_Witness ==
    \E h, g \in Handlers, c \in Conns :
        /\ h # g
        /\ hs[h].outcome = "Success" /\ hs[h].reply = "Success" /\ hs[h].pc = "done"
        /\ c \notin hs[h].targets
        /\ ws[c] = "open"
        /\ Received(c, g) = 1 /\ Received(c, h) = 0

\* C18 (as claimed): a viewer receives the change events of two successful
\* mutations of one name in the order in which they were committed.
\* (Invocations are numbered in the order of their first step, and that step
\* is the one that commits, so the commit order is the order of the numbers.)
C18_EventsInCommitOrder ==
    \A c \in Conns :
        \A i, j \in 1..Len(inbox[c]) :
            (i < j /\ inbox[c][i].name = inbox[c][j].name) =>
                inbox[c][i].src <= inbox[c][j].src

\* C19: every connection in the connection set has a running websocket_handler
\* (started and not exited): a handler's first step puts its connection into
\* the set, and after its exit, with or without an exception, the connection
\* is not in the set; so a publish made after the exit does not have it among
\* the connections it sends to.
C19_SetOnlyRunningHandlers ==
    [][ /\ \A c \in websocket_connections' : ws'[c] \in {"open", "lost"}
        /\ \A c \in Conns :
              (ws[c] = "new" /\ ws'[c] # "new") => c \in websocket_connections'
        /\ \A h \in Handlers :
              hs'[h].targets # hs[h].targets =>
                  \A c \in hs'[h].targets : Running(c) ]_vars

\* C19 witness: a viewer received an event, then its handler exited and its
\* connection is out of the set, and another committed mutation is about to
\* be published.
C19_Witness ==
    \E c \in Conns, h, g \in Handlers :
        /\ h # g
        /\ Received(c, g) = 1
        /\ ws[c] = "closed" /\ c \notin websocket_connections
        /\ hs[h].pc = "reply" /\ hs[h].msg = "Success"

====
